---- MODULE Spec2Model ----
(***************************************************************************)
(* Mutex-protected parallel reductions with pthreads: the max norm         *)
(* (max.c), the Frobenius norm and the pairwise dot product (frobenius.c)  *)
(* and the block dot product (part_000).  One caller creates one worker    *)
(* per partition; each worker folds its slice into a local value and       *)
(* combines it into the caller's accumulator under the caller's mutex.     *)
(* Doubles are modelled by integers: every value the programs handle here  *)
(* is a small integer, on which double arithmetic is exact.                *)
(***************************************************************************)
EXTENDS Integers, Sequences, FiniteSets, TLC

\* ------------------------------------------------------------------ bounds
MaxM == 2        \* rows of a matrix
MaxN == 2        \* columns of a matrix
MaxLen == 3      \* length of a vector
MaxCells == 4    \* entries of a matrix

\* Entry values of the buffers: a negative entry of largest magnitude, zero, a
\* positive entry.
Vals == {-2, 0, 1}
VecVals == {-1, 2}

NoOwner == -1
Uninit == [uninit |-> TRUE]

MatrixKinds == {"max", "frobenius"}
VectorKinds == {"pairs", "blocks"}
Kinds == MatrixKinds \cup VectorKinds

VARIABLES
    A,            \* the matrix, rows 0..m-1 by columns 0..n-1 (empty for a vector run)
    a, b,         \* the vectors, indices 0..n-1 (empty for a matrix run)
    m, n,         \* dimensions of the buffers
    k,            \* block size handed to dotprod_blocks
    kind,         \* the reduction being called
    calls,        \* number of reduction calls begun so far
    cpc,          \* the caller's position in the reduction
    ci,           \* the caller's loop index i
    acc,          \* the shared accumulator: maxElem, frob or sum
    mutex,        \* the call's pthread_mutex_t
    thread_data,  \* the call's ThreadData array
    wpc,          \* every worker's position (threads[i])
    local,        \* every worker's local result: local_max, row_sum, product, block_sum
    tmp,          \* the value of the accumulator a worker read in its critical section
    res,          \* the value returned by each reduction called so far
    main          \* the program around the reductions: its position, the static
                  \* elem of its initialiser, its reference value, output, exit status

vars == <<A, a, b, m, n, k, kind, calls, cpc, ci, acc, mutex, thread_data,
          wpc, local, tmp, res, main>>

inputs == <<A, a, b, m, n, k, main>>

\* ------------------------------------------------------- pure computations
fabs(x) == IF x < 0 THEN -x ELSE x

\* sqrt of a non-negative sum, kept symbolic: equal exactly when the sums are.
sqrt(x) == [sqrt |-> x]

RECURSIVE RowMaxFrom(_, _, _, _, _)
RowMaxFrom(AA, row, j, nn, local_max) ==
    IF j >= nn THEN local_max
    ELSE RowMaxFrom(AA, row, j + 1, nn,
                    IF fabs(AA[row][j]) > local_max THEN fabs(AA[row][j])
                    ELSE local_max)

RECURSIVE RowMaxFrom_NoFabs(_, _, _, _, _)
RowMaxFrom_NoFabs(AA, row, j, nn, local_max) ==
    IF j >= nn THEN local_max
    ELSE RowMaxFrom_NoFabs(AA, row, j + 1, nn,
                           IF AA[row][j] > local_max THEN AA[row][j] ELSE local_max)

compute_row_max_NoFabs(AA, data) ==
    RowMaxFrom_NoFabs(AA, data.row, 1, data.n, AA[data.row][0])

\* compute_row_max, before its critical section
compute_row_max(AA, data) == RowMaxFrom(AA, data.row, 1, data.n, fabs(AA[data.row][0]))

RECURSIVE RowSumFrom(_, _, _, _, _)
RowSumFrom(AA, row, j, nn, row_sum) ==
    IF j >= nn THEN row_sum
    ELSE RowSumFrom(AA, row, j + 1, nn, row_sum + AA[row][j] * AA[row][j])

compute_row_sum_SkipsFirst(AA, data) == RowSumFrom(AA, data.row, 1, data.n, 0)

\* compute_row_sum, before its critical section
compute_row_sum(AA, data) == RowSumFrom(AA, data.row, 0, data.n, 0)

compute_product_Square(aa, bb, data) == aa[data.index] * aa[data.index]

\* compute_product, before its critical section
compute_product(aa, bb, data) == aa[data.index] * bb[data.index]

RECURSIVE BlockSumFrom(_, _, _, _, _)
BlockSumFrom(aa, bb, i, end, block_sum) ==
    IF i >= end THEN block_sum
    ELSE BlockSumFrom(aa, bb, i + 1, end, block_sum + aa[i] * bb[i])

compute_block_SkipsFirst(aa, bb, data) ==
    BlockSumFrom(aa, bb, data.start + 1, data.end, 0)

\* compute_block, before its critical section
compute_block(aa, bb, data) == BlockSumFrom(aa, bb, data.start, data.end, 0)

\* max_ref: the sequential reference of the max norm, entry p = i*n + j
RECURSIVE MaxRefFrom(_, _, _, _, _)
MaxRefFrom(mm, nn, AA, p, maxElem) ==
    IF p >= mm * nn THEN maxElem
    ELSE MaxRefFrom(mm, nn, AA, p + 1,
                    IF fabs(AA[p \div nn][p % nn]) > maxElem THEN AA[p \div nn][p % nn]
                    ELSE maxElem)

max_ref(mm, nn, AA) == MaxRefFrom(mm, nn, AA, 0, AA[0][0])

\* frobenius_ref: the sequential reference of the Frobenius norm
RECURSIVE FrobRefFrom(_, _, _, _, _)
FrobRefFrom(mm, nn, AA, p, frob) ==
    IF p >= mm * nn THEN frob
    ELSE FrobRefFrom(mm, nn, AA, p + 1, frob + AA[p \div nn][p % nn] * AA[p \div nn][p % nn])

frobenius_ref(mm, nn, AA) == sqrt(FrobRefFrom(mm, nn, AA, 0, 0))

\* dotprod_ref is declared in the sources and defined in a file that is not part
\* of them: the sequential sum of a[i] * b[i], i from 0 to n - 1.
RECURSIVE DotRefFrom(_, _, _, _, _)
DotRefFrom(nn, aa, bb, i, sum) ==
    IF i >= nn THEN sum ELSE DotRefFrom(nn, aa, bb, i + 1, sum + aa[i] * bb[i])

dotprod_ref(nn, aa, bb) == DotRefFrom(nn, aa, bb, 0, 0)

\* initArray: a[i] = elem; elem += 1, with elem the function's static counter.
\* Yields the filled buffer and the counter it leaves behind.
RECURSIVE InitArrayFrom(_, _, _, _)
InitArrayFrom(nn, buf, i, elem) ==
    IF i >= nn THEN [buf |-> buf, elem |-> elem]
    ELSE InitArrayFrom(nn, [buf EXCEPT ![i] = elem], i + 1, elem + 1)

initArray_ResetsElem(nn, buf, elem) == InitArrayFrom(nn, buf, 0, 0)

initArray(nn, buf, elem) == InitArrayFrom(nn, buf, 0, elem)

\* initMatrix: A[i][j] = elem; elem += 1 in row-major order, entry p = i*n + j.
RECURSIVE InitMatrixFrom(_, _, _, _, _)
InitMatrixFrom(mm, nn, AA, p, elem) ==
    IF p >= mm * nn THEN [buf |-> AA, elem |-> elem]
    ELSE InitMatrixFrom(mm, nn, [AA EXCEPT ![p \div nn][p % nn] = elem], p + 1, elem + 1)

initMatrix(mm, nn, AA, elem) == InitMatrixFrom(mm, nn, AA, 0, elem)

\* isClose(a, b, 0.0001): fabs(a - b) < threshold, the threshold being 1 / 10000.
ThresholdInv == 10000
isClose(x, y) == fabs(x - y) * ThresholdInv < 1

\* isClose on two square roots of integer sums: below 25,000,000 the roots of
\* two different sums differ by more than the threshold.
isCloseSqrt(x, y) == x.sqrt = y.sqrt

\* ------------------------------------------------------------ the reducer
\* Number of workers of a call: m rows, n elements, or n / k blocks.
nb_threads(kd, mm, nn, kk) ==
    CASE kd \in MatrixKinds -> mm
      [] kd = "pairs" -> nn
      [] kd = "blocks" -> nn \div kk
      [] OTHER -> 0

NbThreads == nb_threads(kind, m, n, k)

\* The accumulator's initial value: A[0][0] for max, 0 for the sums.
InitialAcc(kd, AA) == IF kd = "max" THEN AA[0][0] ELSE 0

Descriptor_LastTakesRest(kd, i, nn, kk, inst) ==
    CASE kd \in MatrixKinds -> [row |-> i, n |-> nn, mutex |-> inst]
      [] kd = "pairs" -> [index |-> i, mutex |-> inst]
      [] OTHER -> [start |-> i * kk,
                   end |-> IF (i + 2) * kk > nn THEN nn ELSE (i + 1) * kk,
                   mutex |-> inst]

Descriptor_Overlapping(kd, i, nn, kk, inst) ==
    CASE kd \in MatrixKinds -> [row |-> i, n |-> nn, mutex |-> inst]
      [] kd = "pairs" -> [index |-> i, mutex |-> inst]
      [] OTHER -> [start |-> IF i > 0 THEN i * kk - 1 ELSE 0,
                   end |-> (i + 1) * kk,
                   mutex |-> inst]

\* The ThreadData the caller writes for worker i.
Descriptor(kd, i, nn, kk, inst) ==
    CASE kd \in MatrixKinds -> [row |-> i, n |-> nn, mutex |-> inst]
      [] kd = "pairs" -> [index |-> i, mutex |-> inst]
      [] OTHER -> [start |-> i * kk, end |-> (i + 1) * kk, mutex |-> inst]

\* A worker's local result, computed from its ThreadData.
LocalResult(kd, data) ==
    CASE kd = "max" -> compute_row_max(A, data)
      [] kd = "frobenius" -> compute_row_sum(A, data)
      [] kd = "pairs" -> compute_product(a, b, data)
      [] OTHER -> compute_block(a, b, data)

Combine_KeepsSmaller(kd, shared, loc) ==
    IF kd = "max" THEN (IF loc < shared THEN loc ELSE shared) ELSE shared + loc

Combine_Overwrite(kd, shared, loc) == IF kd = "max" THEN loc ELSE shared + loc

\* The value a worker stores in its critical section, from the accumulator it
\* read and its local result.
Combine(kd, shared, loc) ==
    IF kd = "max" THEN (IF loc > shared THEN loc ELSE shared) ELSE shared + loc

\* The value the call returns from the accumulator.
Result(kd, shared) == IF kd = "frobenius" THEN sqrt(shared) ELSE shared

CanLock_IgnoresOwner(mtx, inst) == mtx.state = "init" /\ mtx.inst = inst

\* pthread_mutex_lock succeeds on an initialised mutex nobody holds.
CanLock(mtx, inst) == mtx.state = "init" /\ mtx.inst = inst /\ mtx.owner = NoOwner

Joined_NoWait(i) == TRUE

\* pthread_join(threads[i]) returns once worker i has returned.
Joined(i) == wpc[i] = "done"

\* -------------------------------------------------------------------- Init
Shapes == {s \in (1 .. MaxM) \X (1 .. MaxN) : s[1] * s[2] <= MaxCells}
Matrices == UNION {[0 .. (s[1] - 1) -> [0 .. (s[2] - 1) -> Vals]] : s \in Shapes}
Vectors(nn) == [0 .. (nn - 1) -> VecVals]

Idle ==
    /\ kind = "none"
    /\ calls = 0
    /\ cpc = "idle"
    /\ ci = 0
    /\ acc = 0
    /\ mutex = [state |-> "uninit", owner |-> NoOwner, inst |-> 0]
    /\ thread_data = << >>
    /\ wpc = << >>
    /\ local = << >>
    /\ tmp = << >>
    /\ res = << >>

MatrixInit ==
    /\ A \in Matrices
    /\ m = Cardinality(DOMAIN A)
    /\ n = Cardinality(DOMAIN A[0])
    /\ a = << >> /\ b = << >>
    /\ k = 1

VectorInit ==
    /\ n \in 1 .. MaxLen
    /\ a \in Vectors(n)
    /\ b \in Vectors(n)
    /\ k \in 1 .. MaxLen
    /\ A = << >>
    /\ m = 0

\* The reductions called on arbitrary buffers, outside the four programs.
NoMain == [prog |-> "none", pc |-> "harness", elem |-> 0, ref |-> 0, out |-> "", status |-> -1]

Init == Idle /\ main = NoMain /\ (MatrixInit \/ VectorInit)

\* ------------------------------------------------------------------ caller
\* A program calls its one reduction once, after its reference.
CallAllowed(kd) == main.pc = "harness" \/ (main.pc = "call" /\ main.prog = kd)

\* Entry of max / frobenius / dotprod_pairs / dotprod_blocks: the accumulator
\* and the mutex are fresh locals of the call.  The caller runs each reduction
\* that applies to its buffers at most once, in any order.
Call(kd) ==
    /\ cpc \in {"idle", "done"}
    /\ kd \in (IF m > 0 THEN MatrixKinds ELSE VectorKinds)
    /\ kd \notin DOMAIN res
    /\ CallAllowed(kd)
    /\ kind' = kd
    /\ calls' = calls + 1
    /\ acc' = InitialAcc(kd, A)
    /\ mutex' = [state |-> "uninit", owner |-> NoOwner, inst |-> calls + 1]
    /\ thread_data' = [i \in 0 .. (nb_threads(kd, m, n, k) - 1) |-> Uninit]
    /\ wpc' = [i \in 0 .. (nb_threads(kd, m, n, k) - 1) |-> "none"]
    /\ local' = [i \in 0 .. (nb_threads(kd, m, n, k) - 1) |-> 0]
    /\ tmp' = [i \in 0 .. (nb_threads(kd, m, n, k) - 1) |-> 0]
    /\ ci' = 0
    /\ cpc' = "mutex_init"
    /\ UNCHANGED <<inputs, res>>

\* pthread_mutex_init(&mutex, NULL)
MutexInit ==
    /\ cpc = "mutex_init"
    /\ mutex' = [mutex EXCEPT !.state = "init"]
    /\ cpc' = "fill"
    /\ UNCHANGED <<inputs, kind, calls, ci, acc, thread_data, wpc, local, tmp, res>>

\* thread_data[i].row = i; ... thread_data[i].mutex = &mutex
FillData ==
    /\ cpc = "fill"
    /\ ci < NbThreads
    /\ thread_data' = [thread_data EXCEPT ![ci] = Descriptor(kind, ci, n, k, mutex.inst)]
    /\ cpc' = "spawn"
    /\ UNCHANGED <<inputs, kind, calls, ci, acc, mutex, wpc, local, tmp, res>>

\* pthread_create(&threads[i], NULL, compute_..., &thread_data[i]); ++i
CreateThread ==
    /\ cpc = "spawn"
    /\ wpc' = [wpc EXCEPT ![ci] = "start"]
    /\ ci' = ci + 1
    /\ cpc' = "fill"
    /\ UNCHANGED <<inputs, kind, calls, acc, mutex, thread_data, local, tmp, res>>

\* the creation loop ends: i == nb_threads
CreateDone ==
    /\ cpc = "fill"
    /\ ci >= NbThreads
    /\ ci' = 0
    /\ cpc' = "join"
    /\ UNCHANGED <<inputs, kind, calls, acc, mutex, thread_data, wpc, local, tmp, res>>

\* pthread_join(threads[i], NULL); ++i
Join ==
    /\ cpc = "join"
    /\ ci < NbThreads
    /\ Joined(ci)
    /\ ci' = ci + 1
    /\ UNCHANGED <<inputs, kind, calls, cpc, acc, mutex, thread_data, wpc, local, tmp, res>>

MutexDestroy_BeforeJoin ==
    /\ cpc = "join"
    /\ mutex' = [mutex EXCEPT !.state = IF @ = "invalid" THEN @ ELSE "destroyed"]
    /\ cpc' = "return"
    /\ UNCHANGED <<inputs, kind, calls, ci, acc, thread_data, wpc, local, tmp, res>>

\* the join loop ends, then pthread_mutex_destroy(&mutex); a mutex that was
\* never initialised stays so
MutexDestroy ==
    /\ cpc = "join"
    /\ ci >= NbThreads
    /\ mutex' = [mutex EXCEPT !.state = IF @ = "invalid" THEN @ ELSE "destroyed"]
    /\ cpc' = "return"
    /\ UNCHANGED <<inputs, kind, calls, ci, acc, thread_data, wpc, local, tmp, res>>

\* return maxElem / return sqrt(frob) / return sum
Return ==
    /\ cpc = "return"
    /\ res' = (kind :> Result(kind, acc)) @@ res
    /\ cpc' = "done"
    /\ UNCHANGED <<inputs, kind, calls, ci, acc, mutex, thread_data, wpc, local, tmp>>

\* ----------------------------------------------------------------- workers
\* The worker's loop over its slice, up to pthread_mutex_lock.
Compute_WritesBuffer(w) ==
    /\ wpc[w] = "start"
    /\ local' = [local EXCEPT ![w] = LocalResult(kind, thread_data[w])]
    /\ wpc' = [wpc EXCEPT ![w] = "lock"]
    /\ A' = (IF kind = "max"
             THEN [A EXCEPT ![thread_data[w].row] = [j \in DOMAIN @ |-> fabs(@[j])]]
             ELSE A)
    /\ UNCHANGED <<a, b, m, n, k, main, kind, calls, cpc, ci, acc, mutex,
                   thread_data, tmp, res>>

Compute(w) ==
    /\ wpc[w] = "start"
    /\ local' = [local EXCEPT ![w] = LocalResult(kind, thread_data[w])]
    /\ wpc' = [wpc EXCEPT ![w] = "lock"]
    /\ UNCHANGED <<inputs, kind, calls, cpc, ci, acc, mutex, thread_data, tmp, res>>

\* pthread_mutex_lock(data->mutex)
Lock(w) ==
    /\ wpc[w] = "lock"
    /\ CanLock(mutex, thread_data[w].mutex)
    /\ mutex' = [mutex EXCEPT !.owner = w]
    /\ wpc' = [wpc EXCEPT ![w] = "read"]
    /\ UNCHANGED <<inputs, kind, calls, cpc, ci, acc, thread_data, local, tmp, res>>

\* the load of *(data->shared_max) / *(data->shared_sum)
ReadShared(w) ==
    /\ wpc[w] = "read"
    /\ tmp' = [tmp EXCEPT ![w] = acc]
    /\ wpc' = [wpc EXCEPT ![w] = "write"]
    /\ UNCHANGED <<inputs, kind, calls, cpc, ci, acc, mutex, thread_data, local, res>>

\* the store: *shared_max = local_max when larger, *shared_sum = old + local;
\* the loaded value is dead after it
WriteShared(w) ==
    /\ wpc[w] = "write"
    /\ acc' = Combine(kind, tmp[w], local[w])
    /\ tmp' = [tmp EXCEPT ![w] = 0]
    /\ wpc' = [wpc EXCEPT ![w] = "unlock"]
    /\ UNCHANGED <<inputs, kind, calls, cpc, ci, mutex, thread_data, local, res>>

Unlock_KeepsLock(w) ==
    /\ wpc[w] = "unlock"
    /\ wpc' = [wpc EXCEPT ![w] = "done"]
    /\ UNCHANGED <<inputs, kind, calls, cpc, ci, acc, mutex, thread_data, local, tmp, res>>

\* pthread_mutex_unlock(data->mutex); return NULL
Unlock(w) ==
    /\ wpc[w] = "unlock"
    /\ mutex' = [mutex EXCEPT !.owner = NoOwner]
    /\ wpc' = [wpc EXCEPT ![w] = "done"]
    /\ UNCHANGED <<inputs, kind, calls, cpc, ci, acc, thread_data, local, tmp, res>>

Next ==
    \/ \E kd \in Kinds : Call(kd)
    \/ MutexInit
    \/ FillData
    \/ CreateThread
    \/ CreateDone
    \/ Join
    \/ MutexDestroy
    \/ Return
    \/ \E w \in DOMAIN wpc : Compute(w)
    \/ \E w \in DOMAIN wpc : Lock(w)
    \/ \E w \in DOMAIN wpc : ReadShared(w)
    \/ \E w \in DOMAIN wpc : WriteShared(w)
    \/ \E w \in DOMAIN wpc : Unlock(w)

Spec == Init /\ [][Next]_vars

\* ------------------------------------------------------------ the programs
\* Sizes fixed by the programs' #define lines.
M == 5
N == 8
N_pairs == 10
N_blocks == 9
K == 3

Programs == Kinds

\* The reference function each main calls.
Reference(prog) ==
    CASE prog = "max" -> max_ref(m, n, A)
      [] prog = "frobenius" -> frobenius_ref(m, n, A)
      [] OTHER -> dotprod_ref(n, a, b)

\* The test each main makes on ref and res: ref == res in the max program,
\* isClose(ref, res, 0.0001) in the others.
Matches(prog, ref, result) ==
    CASE prog = "max" -> ref = result
      [] prog = "frobenius" -> isCloseSqrt(ref, result)
      [] OTHER -> isClose(ref, result)

\* main up to its first statement: the buffers are declared, not yet written
\* (their cells are shown as 0; nothing reads them before the initialiser runs).
ProgramStart(prog) ==
    /\ main = [prog |-> prog,
               pc |-> IF prog \in MatrixKinds THEN "init_A" ELSE "init_a",
               elem |-> 0, ref |-> 0, out |-> "", status |-> -1]
    /\ m = (IF prog \in MatrixKinds THEN M ELSE 0)
    /\ n = (CASE prog \in MatrixKinds -> N
              [] prog = "pairs" -> N_pairs
              [] OTHER -> N_blocks)
    /\ k = (IF prog = "blocks" THEN K ELSE 1)
    /\ A = (IF prog \in MatrixKinds
            THEN [i \in 0 .. (M - 1) |-> [j \in 0 .. (N - 1) |-> 0]]
            ELSE << >>)
    /\ a = (IF prog \in MatrixKinds THEN << >> ELSE [i \in 0 .. (n - 1) |-> 0])
    /\ b = a

MainInit == Idle /\ \E prog \in Programs : ProgramStart(prog)

reducer == <<kind, calls, cpc, ci, acc, mutex, thread_data, wpc, local, tmp, res>>

\* initMatrix(m, n, A), or initArray(n, a) and then initArray(n, b)
MainInitBuffer ==
    /\ main.pc \in {"init_A", "init_a", "init_b"}
    /\ LET r == CASE main.pc = "init_A" -> initMatrix(m, n, A, main.elem)
                  [] main.pc = "init_a" -> initArray(n, a, main.elem)
                  [] OTHER -> initArray(n, b, main.elem)
       IN /\ A' = (IF main.pc = "init_A" THEN r.buf ELSE A)
          /\ a' = (IF main.pc = "init_a" THEN r.buf ELSE a)
          /\ b' = (IF main.pc = "init_b" THEN r.buf ELSE b)
          /\ main' = [main EXCEPT !.elem = r.elem,
                                  !.pc = IF @ = "init_a" THEN "init_b" ELSE "ref"]
    /\ UNCHANGED <<m, n, k, reducer>>

\* double ref = max_ref(...) / frobenius_ref(...) / dotprod_ref(...)
MainRef ==
    /\ main.pc = "ref"
    /\ main' = [main EXCEPT !.ref = Reference(main.prog), !.pc = "call"]
    /\ UNCHANGED <<A, a, b, m, n, k, reducer>>

\* the reduction has returned res: print OK or the error message
MainCompare ==
    /\ main.pc = "call"
    /\ cpc = "done"
    /\ main' = [main EXCEPT !.out = IF Matches(main.prog, main.ref, res[main.prog])
                                    THEN "OK" ELSE "ERROR",
                            !.pc = "exit"]
    /\ UNCHANGED <<A, a, b, m, n, k, reducer>>

MainReturn_SignalsMismatch ==
    /\ main.pc = "exit"
    /\ main' = [main EXCEPT !.status = IF main.out = "OK" THEN 0 ELSE 1,
                            !.pc = "exited"]
    /\ UNCHANGED <<A, a, b, m, n, k, reducer>>

\* return 0
MainReturn ==
    /\ main.pc = "exit"
    /\ main' = [main EXCEPT !.status = 0, !.pc = "exited"]
    /\ UNCHANGED <<A, a, b, m, n, k, reducer>>

MainNext == Next \/ MainInitBuffer \/ MainRef \/ MainCompare \/ MainReturn

MainSpec == MainInit /\ [][MainNext]_vars

\* ------------------------------------------------- failing pthread calls
\* No return value of a pthread call is looked at.  pthread_mutex_init fails:
\* the call goes on with a mutex that was never initialised.
MutexInitFails ==
    /\ cpc = "mutex_init"
    /\ mutex' = [mutex EXCEPT !.state = "invalid"]
    /\ cpc' = "fill"
    /\ UNCHANGED <<inputs, kind, calls, ci, acc, thread_data, wpc, local, tmp, res>>

\* pthread_create fails: no worker runs, threads[i] is left unset, ++i.
CreateThreadFails ==
    /\ cpc = "spawn"
    /\ wpc' = [wpc EXCEPT ![ci] = "failed"]
    /\ ci' = ci + 1
    /\ cpc' = "fill"
    /\ UNCHANGED <<inputs, kind, calls, acc, mutex, thread_data, local, tmp, res>>

\* pthread_join on a thread id that was never set is undefined: it returns an
\* error at once (here), or the process dies (Crash).
JoinUnset ==
    /\ cpc = "join"
    /\ ci < NbThreads
    /\ wpc[ci] = "failed"
    /\ ci' = ci + 1
    /\ UNCHANGED <<inputs, kind, calls, cpc, acc, mutex, thread_data, wpc, local, tmp, res>>

\* pthread_mutex_lock on a mutex that was never initialised is undefined: it
\* returns an error and the worker goes on without the lock (here), or the
\* process dies (Crash).
LockInvalid(w) ==
    /\ wpc[w] = "lock"
    /\ mutex.state = "invalid"
    /\ wpc' = [wpc EXCEPT ![w] = "read"]
    /\ UNCHANGED <<inputs, kind, calls, cpc, ci, acc, mutex, thread_data, local, tmp, res>>

\* A pthread call with undefined behaviour is about to run.
UndefinedCall ==
    IF cpc = "join" /\ ci < NbThreads /\ wpc[ci] = "failed" THEN TRUE
    ELSE \E w \in DOMAIN wpc : wpc[w] = "lock" /\ mutex.state = "invalid"

\* The undefined call kills the process: the caller and every worker stop.
Crash ==
    /\ cpc \in {"fill", "spawn", "join"}
    /\ UndefinedCall
    /\ cpc' = "aborted"
    /\ wpc' = [w \in DOMAIN wpc |-> "killed"]
    /\ UNCHANGED <<inputs, kind, calls, ci, acc, mutex, thread_data, local, tmp, res>>

FailNext ==
    \/ Next
    \/ MutexInitFails
    \/ CreateThreadFails
    \/ JoinUnset
    \/ \E w \in DOMAIN wpc : LockInvalid(w)
    \/ Crash

FailSpec == Init /\ [][FailNext]_vars

\* The four programs with failing thread creations.  A creation fails when
\* the process is out of threads, which the last creations of a call meet
\* first: the last MaxFailed pthread_create calls of a reduction may fail.
MaxFailed == 1

CreateTailFails ==
    /\ ci >= NbThreads - MaxFailed
    /\ CreateThreadFails

ExitNext ==
    \/ MainNext
    \/ CreateTailFails
    \/ JoinUnset
    \/ Crash

ExitSpec == MainInit /\ [][ExitNext]_vars

\* ------------------------------------------------- the initialisers alone
\* initArray, or initMatrix, called up to MaxInits times in one process on
\* buffers of any size.  b is the buffer of the latest initArray call and a
\* the buffer of the call before it; A is the matrix of the latest initMatrix
\* call; main.lens lists the sizes of the buffers initialised so far.
MaxInits == 4

ArrayInit ==
    /\ Idle
    /\ A = << >> /\ a = << >> /\ b = << >>
    /\ m = 0 /\ n = 0 /\ k = 1
    /\ \E prog \in {"arrays", "matrices"} :
         main = [prog |-> prog, pc |-> "init_any", elem |-> 0, ref |-> 0,
                 out |-> "", status |-> -1, lens |-> << >>]

InitArrayCall(len) ==
    /\ main.prog = "arrays"
    /\ Len(main.lens) < MaxInits
    /\ LET r == initArray(len, [i \in 0 .. (len - 1) |-> 0], main.elem)
       IN /\ a' = b
          /\ b' = r.buf
          /\ main' = [main EXCEPT !.elem = r.elem, !.lens = Append(@, len)]
    /\ n' = len
    /\ UNCHANGED <<A, m, k, reducer>>

InitMatrixCall(mm, nn) ==
    /\ main.prog = "matrices"
    /\ Len(main.lens) < MaxInits
    /\ LET r == initMatrix(mm, nn, [i \in 0 .. (mm - 1) |-> [j \in 0 .. (nn - 1) |-> 0]],
                           main.elem)
       IN /\ A' = r.buf
          /\ main' = [main EXCEPT !.elem = r.elem, !.lens = Append(@, mm * nn)]
    /\ m' = mm
    /\ n' = nn
    /\ UNCHANGED <<a, b, k, reducer>>

ArrayNext ==
    \/ \E len \in 1 .. MaxLen : InitArrayCall(len)
    \/ \E s \in Shapes : InitMatrixCall(s[1], s[2])

ArraySpec == ArrayInit /\ [][ArrayNext]_vars

\* Fair scheduling: the caller, once inside a reduction, and every created worker
\* keep taking steps.
MaxWorkers == IF MaxM > MaxLen THEN MaxM ELSE MaxLen

CallerRun ==
    MutexInit \/ FillData \/ CreateThread \/ CreateDone \/ Join \/ MutexDestroy \/ Return

WorkerRun(w) ==
    /\ w \in DOMAIN wpc
    /\ (Compute(w) \/ Lock(w) \/ ReadShared(w) \/ WriteShared(w) \/ Unlock(w))

\* No guard of a step reads an entry of the buffers, so the runs of every shape,
\* block size and interleaving are explored on fewer entry values.
FairInit ==
    /\ Init
    /\ \A i \in DOMAIN A : \A j \in DOMAIN A[i] : A[i][j] \in {-2, 1}
    /\ \A i \in DOMAIN a : a[i] = 2 /\ b[i] = -1

FairSpec ==
    /\ FairInit
    /\ [][Next]_vars
    /\ WF_vars(CallerRun)
    /\ \A w \in 0 .. (MaxWorkers - 1) : WF_vars(WorkerRun(w))

\* ------------------------------------------------------------------ claims
Running == cpc \notin {"idle", "done"}
AfterJoin == {"return", "done"}
InCS(w) == wpc[w] \in {"read", "write", "unlock"}
AllDone == \A w \in DOMAIN wpc : wpc[w] = "done"

\* C1: at most one worker is inside the critical section, and a worker that
\* reads or writes the shared accumulator holds the call's one mutex.
C1_MutualExclusion ==
    /\ Cardinality({w \in DOMAIN wpc : InCS(w)}) <= 1
    /\ \A w \in DOMAIN wpc :
         InCS(w) => /\ mutex.owner = w
                    /\ mutex.state = "init"
                    /\ thread_data[w].mutex = mutex.inst

C1_Witness ==
    \E v, w \in DOMAIN wpc : v # w /\ wpc[v] = "write" /\ wpc[w] = "lock"

\* C2: the caller reads the accumulator only once every worker has returned and
\* released the mutex, and the accumulator still holds the value it read.
C2_ReadAfterJoin ==
    /\ cpc \in AfterJoin => (AllDone /\ mutex.owner = NoOwner)
    /\ cpc = "done" => res[kind] = Result(kind, acc)

C2_Witness ==
    /\ cpc = "done"
    /\ NbThreads >= 2
    /\ acc # InitialAcc(kind, A)

\* C3: under fair scheduling every call reaches its end, no state inside a call
\* is a deadlock, a worker waiting for the mutex gets it, and a worker holding
\* it releases it.
C3_Terminates ==
    /\ [](Running => ENABLED Next)
    /\ Running ~> (cpc = "done")
    /\ \A w \in 0 .. (MaxWorkers - 1) :
         /\ (w \in DOMAIN wpc /\ wpc[w] = "lock") ~> (mutex.owner = w)
         /\ (mutex.owner = w) ~> (mutex.owner # w /\ w \in DOMAIN wpc /\ wpc[w] = "done")

C3_Witness ==
    /\ cpc = "done"
    /\ NbThreads >= 2
    /\ DOMAIN res = (IF m > 0 THEN MatrixKinds ELSE VectorKinds)

\* The largest absolute value of an entry of the matrix.
AbsEntries == {fabs(A[i][j]) : i \in 0 .. (m - 1), j \in 0 .. (n - 1)}
MaxAbs == CHOOSE v \in AbsEntries : \A u \in AbsEntries : u <= v

RECURSIVE SumOver(_, _)
SumOver(f, S) ==
    IF S = {} THEN 0
    ELSE LET i == CHOOSE x \in S : TRUE IN f[i] + SumOver(f, S \ {i})

SumProducts == SumOver([i \in 0 .. (n - 1) |-> a[i] * b[i]], 0 .. (n - 1))

\* C6: dotprod_pairs, and dotprod_blocks for a block size dividing the length,
\* return the sum of the products a[i] * b[i], hence the same value.
C6_DotVariantsAgree ==
    /\ "pairs" \in DOMAIN res => res["pairs"] = SumProducts
    /\ ("blocks" \in DOMAIN res /\ n % k = 0) => res["blocks"] = SumProducts
    /\ ({"pairs", "blocks"} \subseteq DOMAIN res /\ n % k = 0) =>
           res["pairs"] = res["blocks"]

C6_Witness ==
    /\ {"pairs", "blocks"} \subseteq DOMAIN res
    /\ n = 3 /\ k = 3
    /\ a # b
    /\ res["blocks"] # 0

\* C7: max_ref returns the value the parallel max returns.
C7_RefEqualsMax ==
    (cpc = "done" /\ kind = "max") => max_ref(m, n, A) = res["max"]

\* C8: a reduction in which pthread_mutex_init or a pthread_create failed
\* returns no result.
C8_FailureIsFatal ==
    cpc = "done" => (mutex.state # "invalid" /\ \A w \in DOMAIN wpc : wpc[w] # "failed")

\* C9: the mutex is initialised before any worker exists, is held only while
\* initialised, is destroyed only after the join loop when every worker has
\* returned, and the workers of a call are handed that call's own mutex.
C9_LockLifetime ==
    /\ (\E w \in DOMAIN wpc : wpc[w] # "none") => mutex.state # "uninit"
    /\ mutex.owner # NoOwner => mutex.state = "init"
    /\ mutex.state = "destroyed" => (AllDone /\ cpc \in AfterJoin /\ ci = NbThreads)
    /\ mutex.inst = calls
    /\ \A w \in DOMAIN wpc :
         wpc[w] # "none" => thread_data[w].mutex = calls

C9_Witness ==
    /\ calls = 2
    /\ mutex.state = "destroyed"
    /\ NbThreads >= 2

Iota(first, len) == [i \in 0 .. (len - 1) |-> first + i]
PairsExited == main.prog = "pairs" /\ main.pc = "exited"

BlocksExited == main.prog = "blocks" /\ main.pc = "exited"

MaxExited == main.prog = "max" /\ main.pc = "exited"

\* C12: the max program runs on the 5x8 matrix holding 0..39 in row-major
\* order; max_ref returns 39, max returns 39 in every order of its five row
\* workers, and the program prints OK.
C12_MaxOnIotaMatrix ==
    /\ (main.prog = "max" /\ main.pc # "init_A") =>
           A = [i \in 0 .. (M - 1) |-> [j \in 0 .. (N - 1) |-> i * N + j]]
    /\ (main.prog = "max" /\ main.pc \notin {"init_A", "ref"}) => main.ref = 39
    /\ (main.prog = "max" /\ cpc = "done") => res["max"] = 39
    /\ MaxExited => main.out = "OK"

C12_Witness ==
    /\ MaxExited /\ main.out = "OK"
    /\ DOMAIN wpc = 0 .. (M - 1)
    /\ local[0] = 7 /\ local[M - 1] = 39

\* A buffer of one element: a 1x1 matrix, or two vectors of length 1.
SingleElement == n = 1 /\ m \in {0, 1}
Created == {w \in DOMAIN wpc : wpc[w] # "none"}

\* C13 as stated: on a buffer of one element every reduction returns that
\* element's transformed value, dotprod_blocks doing so for every block size,
\* and no call creates more than one worker.
C13_SingleElement ==
    SingleElement =>
      /\ "max" \in DOMAIN res => res["max"] = fabs(A[0][0])
      /\ "frobenius" \in DOMAIN res => res["frobenius"] = sqrt(A[0][0] * A[0][0])
      /\ "pairs" \in DOMAIN res => res["pairs"] = a[0] * b[0]
      /\ "blocks" \in DOMAIN res => res["blocks"] = a[0] * b[0]
      /\ Cardinality(Created) <= 1

\* C13 amended: on a buffer of one element max returns |x|, frobenius the
\* root of x*x, dotprod_pairs a[0]*b[0], and dotprod_blocks a[0]*b[0] for
\* the block size 1 only: for a larger block size it creates no worker and
\* returns 0.  No call creates more than one worker.
C13_SingleElementUnitBlock ==
    SingleElement =>
      /\ "max" \in DOMAIN res => res["max"] = fabs(A[0][0])
      /\ "frobenius" \in DOMAIN res => res["frobenius"] = sqrt(A[0][0] * A[0][0])
      /\ (kind = "frobenius" /\ cpc \in AfterJoin) => acc = A[0][0] * A[0][0]
      /\ "pairs" \in DOMAIN res => res["pairs"] = a[0] * b[0]
      /\ "blocks" \in DOMAIN res =>
             res["blocks"] = (IF k = 1 THEN a[0] * b[0] ELSE 0)
      /\ (kind = "blocks" /\ k > 1) => DOMAIN wpc = {}
      /\ Cardinality(Created) <= 1

C13_Witness ==
    /\ SingleElement /\ m = 0 /\ k = 1
    /\ DOMAIN res = VectorKinds
    /\ a[0] # b[0]
    /\ Created = {0}

\* C14: no step of a reduction, of its caller or of a worker, writes the
\* input buffers: from the call to the return A, a and b keep their values.
C14_InputsUntouched ==
    [][(Running \/ Running') => (A' = A /\ a' = a /\ b' = b)]_vars

C14_Witness ==
    /\ cpc = "done" /\ kind = "max"
    /\ \A i \in DOMAIN A : \E j \in DOMAIN A[i] : A[i][j] < 0
    /\ res["max"] = 2

\* The elements the blocks cover: the first floor(n / k) * k of them.
Covered == 0 .. ((n \div k) * k - 1)

\* C16: for every block size, dividing the length or not, dotprod_blocks
\* creates floor(n / k) workers and returns the sum of a[i] * b[i] over the
\* first floor(n / k) * k indices; the n mod k trailing elements add nothing,
\* and for k > n there is no worker and the result is 0.
C16_BlocksTruncate ==
    /\ kind = "blocks" =>
         /\ DOMAIN wpc = 0 .. ((n \div k) - 1)
         /\ cpc \in {"join", "return", "done"} => Created = DOMAIN wpc
         /\ k > n => Created = {}
    /\ "blocks" \in DOMAIN res =>
         /\ res["blocks"] = SumOver([i \in Covered |-> a[i] * b[i]], Covered)
         /\ k > n => res["blocks"] = 0

C16_Witness ==
    /\ cpc = "done" /\ kind = "blocks"
    /\ n = 3 /\ k = 2
    /\ Created = {0}
    /\ res["blocks"] # SumProducts

\* The part of the buffer a written ThreadData designates: a row, an element
\* or the elements of a block.
Written == {w \in DOMAIN thread_data : "uninit" \notin DOMAIN thread_data[w]}
Cells(data) ==
    CASE "row" \in DOMAIN data -> {data.row}
      [] "index" \in DOMAIN data -> {data.index}
      [] OTHER -> data.start .. (data.end - 1)
Units == IF kind \in MatrixKinds THEN 0 .. (m - 1) ELSE 0 .. (n - 1)

C17_Partition ==
    /\ \A w \in Written :
         /\ Cells(thread_data[w]) # {}
         /\ Cells(thread_data[w]) \subseteq Units
         /\ thread_data[w].mutex = calls
         /\ \A v \in Written \ {w} :
              Cells(thread_data[v]) \cap Cells(thread_data[w]) = {}
    /\ Created \subseteq Written
    /\ (cpc \in {"join", "return", "done"} /\ (kind = "blocks" => n % k = 0)) =>
           UNION {Cells(thread_data[w]) : w \in Written} = Units

\* C17: the ThreadData of a call designate non-empty parts of the buffer that
\* are pairwise disjoint and, the block size dividing the length, cover it;
\* each is written before its worker is created and keeps its value until
\* the next call.
C17_Descriptors ==
    /\ []C17_Partition
    /\ [][\A w \in Written : calls' = calls => thread_data'[w] = thread_data[w]]_vars

C17_Witness ==
    /\ cpc = "done" /\ kind = "blocks"
    /\ n = 3 /\ k = 1
    /\ Written = 0 .. 2
    /\ Cells(thread_data[2]) = {2}

\* The workers that have stored into the accumulator, and those that have
\* also released the mutex.
Stored == {w \in DOMAIN wpc : wpc[w] \in {"unlock", "done"}}
Finished == {w \in DOMAIN wpc : wpc[w] = "done"}
SumKinds == {"frobenius", "pairs", "blocks"}

\* C19: in the three sum reductions the accumulator is, in every state, the
\* sum of the local results of the workers that have stored, each counted
\* once; between critical sections these are the workers that have left
\* theirs, and after the join these are all the workers.
C19_SumsAddOnce ==
    kind \in SumKinds =>
      /\ acc = SumOver(local, Stored)
      /\ mutex.owner = NoOwner => acc = SumOver(local, Finished)
      /\ cpc \in AfterJoin =>
           acc = SumOver([w \in DOMAIN wpc |-> LocalResult(kind, thread_data[w])],
                         DOMAIN wpc)

C19_Witness ==
    /\ kind = "pairs" /\ n = 3
    /\ wpc[0] = "lock" /\ wpc[1] = "unlock" /\ wpc[2] = "done"
    /\ acc = local[1] + local[2]
    /\ local[0] # 0

\* C20: in the parallel max the shared maximum starts at A[0][0], a step
\* that changes it is the store of a worker whose local maximum is larger,
\* and in every state it is A[0][0] or the local maximum of a worker that
\* has stored, and at least the local maximum of every such worker.
C20_MaxBounds ==
    kind = "max" =>
      /\ cpc = "mutex_init" => acc = A[0][0]
      /\ acc >= A[0][0]
      /\ acc = A[0][0] \/ \E w \in Stored : acc = local[w]
      /\ \A w \in Stored : acc >= local[w]

C20_MaxNeverDecreases ==
    /\ []C20_MaxBounds
    /\ [][(kind = "max" /\ calls' = calls /\ acc' # acc) =>
             /\ acc' > acc
             /\ \E w \in DOMAIN wpc :
                  wpc[w] = "write" /\ wpc'[w] = "unlock" /\ acc' = local[w]]_vars

C20_Witness ==
    /\ kind = "max" /\ cpc = "done"
    /\ m = 2
    /\ acc > A[0][0]
    /\ local[1] < local[0]
    /\ acc = local[0]

\* C15: a program that returns from main returns 0, having printed OK when
\* its test on the reference and the parallel result succeeds and the error
\* message when it fails; no other exit status is ever produced.
C15_ExitStatusZero ==
    /\ main.status \in {-1, 0}
    /\ main.status = 0 <=> main.pc = "exited"
    /\ main.pc \in {"exit", "exited"} =>
         main.out = (IF Matches(main.prog, main.ref, res[main.prog])
                     THEN "OK" ELSE "ERROR")

C15_Witness ==
    /\ main.pc = "exited"
    /\ main.out = "ERROR"
    /\ main.status = 0
    /\ main.prog = "max"

\* The number of elements written by the first c initialiser calls.
WrittenBy(c) == SumOver(main.lens, 1 .. c)
Values(buf) == {buf[i] : i \in DOMAIN buf}

====
